---- MODULE Spec2Model ----
(***************************************************************************)
(* A model of the grokker knowledge-base engine (package grokker):         *)
(* chunking, embedding batching, document synchronization, garbage         *)
(* collection, refresh and context assembly.                               *)
(*                                                                         *)
(* Strings are sequences of one-character strings.  The file system and    *)
(* the embedding provider are outside the program: what a call reads from  *)
(* them is an input of the action that models the call.                    *)
(***************************************************************************)
EXTENDS Naturals, Integers, Sequences, FiniteSets, TLC

VARIABLES
    Documents,  \* g.Documents: the list of tracked documents (RelPath)
    Chunks,     \* g.Chunks: the list of chunks [doc, text, emb]
    Version,    \* g.Version: the version the knowledge base was last written with
    Model,      \* g.Model: the name of the active model
    maxChunkLen, \* g.maxChunkLen, which initModel derives from the model's token limit
    last        \* history: the last call made, its inputs and what it returned

vars == <<Documents, Chunks, Version, Model, maxChunkLen, last>>

\* the fields beside the two lists
settings == <<Version, Model, maxChunkLen>>

(***************************************************************************)
(* Bounds of the model.                                                    *)
(***************************************************************************)
\* g.maxEmbeddingChunkLen, scaled down from floor(8192 * 3.1)
maxEmbeddingChunkLen == 3
\* the largest TokenLimit of a model, scaled down from 32768
MaxTokenLimit == 32
\* most paragraphs of a document's file, and the longest of them
MaxParagraphs == 3
MaxParagraphLen == 2
\* longest list of texts handed to CreateEmbeddings directly
MaxTexts == 4
\* the chunk list stops growing here
MaxChunks == 3
\* the provider's failing request is at most this one (0: none fails)
MaxFailAt == 2
\* longest question
MaxQuestionLen == 3
\* longest text handed to chunks directly, and the largest maxLen
MaxTextLen == 6
MaxLen == 4
MaxDim == 2

NL == "\n"

None == "none"

\* the version of the running program
version == "1.0.0"

\* NewModels: the available models and their TokenLimit, 4096, 8192 and
\* 32768 scaled down to MaxTokenLimit
ModelNames == {"gpt-3.5-turbo", "gpt-4", "gpt-4-32k"}
TokenLimitOf(name) ==
    CASE name = "gpt-3.5-turbo" -> MaxTokenLimit \div 8
      [] name = "gpt-4" -> MaxTokenLimit \div 4
      [] name = "gpt-4-32k" -> MaxTokenLimit

DefaultModel == "gpt-3.5-turbo"

\* Models.findModel: the name found, None when the model is not available
findModel(model) ==
    IF model = "" THEN DefaultModel
    ELSE IF model \in ModelNames THEN model
    ELSE None

\* initModel: g.maxChunkLen = floor(TokenLimit * charsPerToken), charsPerToken 3.1
ChunkLenOf(tokenLimit) == (31 * tokenLimit) \div 10

\* UpgradeModel's test for a smaller model
DowngradeNever(name, oldName) == FALSE
Downgrade(name, oldName) == TokenLimitOf(name) < TokenLimitOf(oldName)

\* Grokker.UpgradeModel on the active model cur: [status, Model, maxChunkLen]
UpgradeModel(cur, curLen, model) ==
    LET name == findModel(model)
        oldName == findModel(cur)
    IN IF name = None \/ oldName = None
       THEN [status |-> "notfound", Model |-> cur, maxChunkLen |-> curLen]
       ELSE IF Downgrade(name, oldName)
            THEN [status |-> "downgrade", Model |-> cur, maxChunkLen |-> curLen]
            ELSE [status |-> "ok", Model |-> name,
                  maxChunkLen |-> ChunkLenOf(TokenLimitOf(name))]

\* all strings over cs of length at most n
StringsUpTo(cs, n) == UNION {[1..k -> cs] : k \in 0..n}

(***************************************************************************)
(* Sequence helpers.                                                       *)
(***************************************************************************)
RECURSIVE Concat(_)
Concat(ss) == IF ss = <<>> THEN <<>> ELSE Head(ss) \o Concat(Tail(ss))

RECURSIVE SumLen(_)
SumLen(ss) == IF ss = <<>> THEN 0 ELSE Len(Head(ss)) + SumLen(Tail(ss))

\* s without its i-th element: append(s[:i], s[i+1:]...)
RemoveAt(s, i) == SubSeq(s, 1, i - 1) \o SubSeq(s, i + 1, Len(s))

(***************************************************************************)
(* The chunker: Grokker.chunks.                                            *)
(***************************************************************************)
\* strings.Split(txt, "\n\n"): cur is the paragraph being read
RECURSIVE SplitParagraphs(_, _)
SplitParagraphs(txt, cur) ==
    IF txt = <<>> THEN <<cur>>
    ELSE IF Len(txt) >= 2 /\ txt[1] = NL /\ txt[2] = NL
         THEN <<cur>> \o SplitParagraphs(SubSeq(txt, 3, Len(txt)), <<>>)
         ELSE SplitParagraphs(Tail(txt), Append(cur, Head(txt)))

\* the hard-split position of a paragraph that is too long
SplitAtFull(maxLen) == maxLen
SplitAt(maxLen) == maxLen - 1

\* whether a paragraph is cut further
TooLongStrict(paragraph, maxLen) == Len(paragraph) > maxLen
TooLongByTwo(paragraph, maxLen) == Len(paragraph) >= maxLen + 2
TooLong(paragraph, maxLen) == Len(paragraph) >= maxLen

\* paragraph = paragraph[split:]
RestSkip(paragraph, split) == SubSeq(paragraph, split + 2, Len(paragraph))
Rest(paragraph, split) == SubSeq(paragraph, split + 1, Len(paragraph))

\* the inner loop of chunks over one paragraph (maxLen >= 2)
RECURSIVE SplitParagraph(_, _)
SplitParagraph(paragraph, maxLen) ==
    IF Len(paragraph) = 0 THEN <<>>
    ELSE IF TooLong(paragraph, maxLen)
         THEN <<SubSeq(paragraph, 1, SplitAt(maxLen))>>
              \o SplitParagraph(Rest(paragraph, SplitAt(maxLen)), maxLen)
         ELSE <<paragraph>>

RECURSIVE ChunkParagraphs(_, _)
ChunkParagraphs(paragraphs, maxLen) ==
    IF paragraphs = <<>> THEN <<>>
    ELSE SplitParagraph(Head(paragraphs), maxLen) \o ChunkParagraphs(Tail(paragraphs), maxLen)

chunks(txt, maxLen) == ChunkParagraphs(SplitParagraphs(txt, <<>>), maxLen)

\* the inner loop never ends: an iteration appends paragraph[:0] and leaves
\* the paragraph as it was
Stuck(paragraph, maxLen) ==
    Len(paragraph) > 0 /\ TooLong(paragraph, maxLen) /\ SplitAt(maxLen) = 0

\* chunks as its caller sees it: [status, c], status "hangs" when a
\* paragraph keeps the inner loop from ending
ChunksResult(txt, maxLen) ==
    LET paragraphs == SplitParagraphs(txt, <<>>) IN
    IF \E k \in 1..Len(paragraphs) : Stuck(paragraphs[k], maxLen)
    THEN [status |-> "hangs", c |-> <<>>]
    ELSE [status |-> "ok", c |-> chunks(txt, maxLen)]

\* Grokker.chunkStrings, on the content read from the document's file
chunkStrings(content) == chunks(content, maxEmbeddingChunkLen)

(***************************************************************************)
(* The embedding provider.  A provider is [gen, failAt]: the vectors it    *)
(* returns carry gen, and its failAt-th request fails (0: none).           *)
(***************************************************************************)
Gens == {1, 2}
Providers == [gen : Gens, failAt : 0..MaxFailAt]

\* the vector the provider returns for a text
Embedding(text, prov) == [of |-> text, gen |-> prov.gen]

\* res.Data of one request: one vector per input, in input order
ProviderData(inputs, prov) == [k \in 1..Len(inputs) |-> Embedding(inputs[k], prov)]

(***************************************************************************)
(* The embedding batcher: Grokker.CreateEmbeddings.                        *)
(***************************************************************************)
\* the test that closes the current query before texts[j]
ClosesBatchLoose(totalLen, nextLen) == totalLen + nextLen > maxEmbeddingChunkLen
ClosesBatchEarly(totalLen, nextLen) == totalLen + nextLen >= maxEmbeddingChunkLen - 1
ClosesBatch(totalLen, nextLen) == totalLen + nextLen >= maxEmbeddingChunkLen

\* the inner loop: from texts[j] on with totalLen accumulated;
\* [ok, j, totalLen], ok false when an assertion of the loop fails
RECURSIVE FillBatch(_, _, _)
FillBatch(texts, j, totalLen) ==
    LET nextLen == Len(texts[j]) IN
    IF ~(nextLen > 0) \/ ~(nextLen <= maxEmbeddingChunkLen)
    THEN [ok |-> FALSE, j |-> j, totalLen |-> totalLen]
    ELSE IF ClosesBatch(totalLen, nextLen)
         THEN [ok |-> TRUE, j |-> j - 1, totalLen |-> totalLen]
         ELSE IF j = Len(texts)
              THEN [ok |-> TRUE, j |-> j, totalLen |-> totalLen + nextLen]
              ELSE FillBatch(texts, j + 1, totalLen + nextLen)

\* the assertions between the inner loop and the request
BatchAsserts(texts, i, b) ==
    /\ b.ok
    /\ b.j >= i
    /\ b.totalLen > 0
    /\ \A k \in i..b.j : Len(texts[k]) <= maxEmbeddingChunkLen
    /\ SumLen(SubSeq(texts, i, b.j)) <= maxEmbeddingChunkLen

\* Ck(err) after c.CreateEmbeddings: the request made after issued others fails
FailsFirstOnly(prov, issued) == issued = 0 /\ prov.failAt = 1
Fails(prov, issued) == issued + 1 = prov.failAt

\* inputs := texts[i : j+1], with i and j counted from 1
InputsShort(texts, i, j) == SubSeq(texts, i, j - 1)
Inputs(texts, i, j) == SubSeq(texts, i, j)

\* i = j + 1: the first text of the next query
NextStartSkip(j) == j + 2
NextStart(j) == j + 1

\* the outer loop from texts[i] on; issued counts the provider's requests so far.
\* status: "ok", "assert" (an assertion failed) or "error" (the provider failed);
\* reqs: the requests sent, the failing one included
RECURSIVE EmbedFrom(_, _, _, _)
EmbedFrom(texts, i, prov, issued) ==
    IF i > Len(texts)
    THEN [status |-> "ok", reqs |-> <<>>, embeddings |-> <<>>]
    ELSE LET b == FillBatch(texts, i, 0) IN
         IF ~BatchAsserts(texts, i, b)
         THEN [status |-> "assert", reqs |-> <<>>, embeddings |-> <<>>]
         ELSE LET inputs == Inputs(texts, i, b.j) IN
              IF Fails(prov, issued)
              THEN [status |-> "error", reqs |-> <<inputs>>, embeddings |-> <<>>]
              ELSE LET rest == EmbedFrom(texts, NextStart(b.j), prov, issued + 1) IN
                   [status |-> rest.status,
                    reqs |-> <<inputs>> \o rest.reqs,
                    embeddings |-> IF rest.status = "ok"
                                   THEN ProviderData(inputs, prov) \o rest.embeddings
                                   ELSE <<>>]

CreateEmbeddings(texts, prov, issued) ==
    IF Len(texts) = 0
    THEN [status |-> "ok", reqs |-> <<>>, embeddings |-> <<>>]
    ELSE EmbedFrom(texts, 1, prov, issued)

(***************************************************************************)
(* The file system, as a call sees it.  A file is missing, or it exists    *)
(* and is or is not newer than lastUpdate; content is what ReadFile gives. *)
(***************************************************************************)
MissingFile == [exists |-> FALSE, newer |-> FALSE, content |-> <<>>]
OldFile == [exists |-> TRUE, newer |-> FALSE, content |-> <<>>]
NewerFile(t) == [exists |-> TRUE, newer |-> TRUE, content |-> t]

\* what a call that only reads the file can find
ReadFiles(T) == {MissingFile} \cup {NewerFile(t) : t \in T}
\* what a call that stats the file and compares its time can find
StatFiles(T) == {MissingFile, OldFile} \cup {NewerFile(t) : t \in T}

(***************************************************************************)
(* The synchronizer: Grokker.UpdateDocument.                               *)
(***************************************************************************)
\* the existing chunks of the document, as indices of the chunk list
OldChunks(cs, doc) == SelectSeq([k \in 1..Len(cs) |-> k], LAMBDA k : cs[k].doc = doc)

\* oldChunks after chunkString matched its m-th element
PoolAfterMatchKeep(oldChunks, m) == oldChunks
PoolAfterMatchFirst(oldChunks, m) == RemoveAt(oldChunks, 1)
PoolAfterMatch(oldChunks, m) == RemoveAt(oldChunks, m)

\* the first of oldChunks whose Text is chunkString, as an index of oldChunks
\* (0: not found)
FoundAt(cs, oldChunks, chunkString) ==
    IF \E i \in 1..Len(oldChunks) : cs[oldChunks[i]].text = chunkString
    THEN CHOOSE i \in 1..Len(oldChunks) :
             /\ cs[oldChunks[i]].text = chunkString
             /\ \A k \in 1..(i - 1) : cs[oldChunks[k]].text # chunkString
    ELSE 0

\* the loop over chunkStrings: the strings with no match left among oldChunks
RECURSIVE NewChunkStrings(_, _, _)
NewChunkStrings(cs, strs, oldChunks) ==
    IF strs = <<>> THEN <<>>
    ELSE LET m == FoundAt(cs, oldChunks, Head(strs)) IN
         IF m # 0
         THEN NewChunkStrings(cs, Tail(strs), PoolAfterMatch(oldChunks, m))
         ELSE <<Head(strs)>> \o NewChunkStrings(cs, Tail(strs), oldChunks)

\* the chunks appended for the new strings
NewChunks(doc, strs, embeddings) ==
    [k \in 1..Len(strs) |-> [doc |-> doc, text |-> strs[k], emb |-> embeddings[k]]]

\* the result updated: set when a chunk string is not found, and kept when
\* CreateEmbeddings then panics and Return recovers
UpdatedAlways(new) == TRUE
Updated(new) == new # <<>>

\* UpdateDocument on chunk list cs: [status, chunks, updated, reqs, sent]
UpdateDocument(cs, doc, file, prov, issued) ==
    IF ~file.exists
    THEN [status |-> "notfound", chunks |-> cs, updated |-> FALSE, reqs |-> <<>>, sent |-> <<>>]
    ELSE LET strs == chunkStrings(file.content)
             new == NewChunkStrings(cs, strs, OldChunks(cs, doc))
             res == CreateEmbeddings(new, prov, issued)
         IN [status |-> res.status,
             chunks |-> IF res.status = "ok"
                        THEN cs \o NewChunks(doc, new, res.embeddings)
                        ELSE cs,
             updated |-> Updated(new),
             reqs |-> res.reqs,
             sent |-> new]

(***************************************************************************)
(* Grokker.ForgetDocument.  A path is [rel, abs]: the document whose       *)
(* RelPath equals the path and the one whose absolute path equals           *)
(* filepath.Abs of it (None: no such document).                             *)
(***************************************************************************)
Paths(D) == [rel : D \cup {None}, abs : D \cup {None}]
AbsPathOf(d) == [rel |-> None, abs |-> d]

PathMatches(d, path) == d = path.rel \/ d = path.abs

\* the index of the last document the path matches (0: none)
MatchAtLast(docs, path) ==
    IF \E i \in 1..Len(docs) : PathMatches(docs[i], path)
    THEN CHOOSE i \in 1..Len(docs) :
             /\ PathMatches(docs[i], path)
             /\ \A k \in (i + 1)..Len(docs) : ~PathMatches(docs[k], path)
    ELSE 0

\* the index of the first document the path matches (0: none)
MatchAt(docs, path) ==
    IF \E i \in 1..Len(docs) : PathMatches(docs[i], path)
    THEN CHOOSE i \in 1..Len(docs) :
             /\ PathMatches(docs[i], path)
             /\ \A k \in 1..(i - 1) : ~PathMatches(docs[k], path)
    ELSE 0

ForgetDocument(docs, path) ==
    LET i == MatchAt(docs, path) IN
    IF i = 0 THEN docs ELSE RemoveAt(docs, i)

(***************************************************************************)
(* Grokker.GC.                                                             *)
(***************************************************************************)
ReferencedByLast(docs, chunk) == docs # <<>> /\ docs[Len(docs)] = chunk.doc
Referenced(docs, chunk) == \E k \in 1..Len(docs) : docs[k] = chunk.doc

GC(docs, cs) == SelectSeq(cs, LAMBDA chunk : Referenced(docs, chunk))

(***************************************************************************)
(* Grokker.UpdateEmbeddings: the refresh pass.  The range statement reads  *)
(* the slice g.Documents once; ForgetDocument then shifts the elements of   *)
(* the same backing array under the loop.  arr is that array as the loop    *)
(* sees it, n the current length of g.Documents.                            *)
(***************************************************************************)
\* the backing array after g.Documents became docs in place
Backing(arr, docs) == docs \o SubSeq(arr, Len(docs) + 1, Len(arr))

\* the loop from index i on; [status, docs, chunks, update, reqs, synced]
RECURSIVE RefreshFrom(_, _, _, _, _, _, _, _)
RefreshFrom(i, arr, n, cs, update, stat, prov, issued) ==
    IF i > Len(arr)
    THEN [status |-> "ok", docs |-> SubSeq(arr, 1, n), chunks |-> cs,
          update |-> update, reqs |-> <<>>, synced |-> <<>>]
    ELSE LET doc == arr[i]
             file == stat[doc]
         IN IF ~file.exists
            THEN LET docs == ForgetDocument(SubSeq(arr, 1, n), AbsPathOf(doc)) IN
                 RefreshFrom(i + 1, Backing(arr, docs), Len(docs), cs, TRUE, stat, prov, issued)
            ELSE IF file.newer
                 THEN LET r == UpdateDocument(cs, doc, file, prov, issued) IN
                      IF r.status # "ok"
                      THEN [status |-> r.status, docs |-> SubSeq(arr, 1, n), chunks |-> cs,
                            update |-> update, reqs |-> r.reqs, synced |-> <<doc>>]
                      ELSE LET rest == RefreshFrom(i + 1, arr, n, r.chunks, update \/ r.updated,
                                                   stat, prov, issued + Len(r.reqs))
                           IN [rest EXCEPT !.reqs = r.reqs \o @, !.synced = <<doc>> \o @]
                 ELSE RefreshFrom(i + 1, arr, n, cs, update, stat, prov, issued)

\* the pass and the GC that ends it (no GC when the pass stops on an error)
UpdateEmbeddings(docs, cs, stat, prov) ==
    LET r == RefreshFrom(1, docs, Len(docs), cs, FALSE, stat, prov, 0) IN
    IF r.status = "ok" THEN [r EXCEPT !.chunks = GC(r.docs, r.chunks)] ELSE r

(***************************************************************************)
(* Grokker.RefreshEmbeddings: the pass over all documents that Migrate     *)
(* runs.  It ranges over g.Documents as UpdateEmbeddings does, forgets a   *)
(* missing document by its RelPath and calls UpdateDocument on every other *)
(* one, whatever the file's time.                                          *)
(***************************************************************************)
\* the path RefreshEmbeddings hands to ForgetDocument: d.RelPath == path is
\* tested first
RelPathOf(d) == [rel |-> d, abs |-> None]

\* the loop from index i on; [status, docs, chunks, reqs]
RECURSIVE RefreshAllFrom(_, _, _, _, _, _, _)
RefreshAllFrom(i, arr, n, cs, stat, prov, issued) ==
    IF i > Len(arr)
    THEN [status |-> "ok", docs |-> SubSeq(arr, 1, n), chunks |-> cs, reqs |-> <<>>]
    ELSE LET doc == arr[i]
             file == stat[doc]
         IN IF ~file.exists
            THEN LET docs == ForgetDocument(SubSeq(arr, 1, n), RelPathOf(doc)) IN
                 RefreshAllFrom(i + 1, Backing(arr, docs), Len(docs), cs, stat, prov, issued)
            ELSE LET r == UpdateDocument(cs, doc, file, prov, issued) IN
                 IF r.status # "ok"
                 THEN [status |-> r.status, docs |-> SubSeq(arr, 1, n), chunks |-> cs,
                       reqs |-> r.reqs]
                 ELSE LET rest == RefreshAllFrom(i + 1, arr, n, r.chunks, stat, prov,
                                                 issued + Len(r.reqs))
                      IN [rest EXCEPT !.reqs = r.reqs \o @]

\* the pass and the GC that ends it (no GC when the pass stops on an error)
RefreshEmbeddings(docs, cs, stat, prov) ==
    LET r == RefreshAllFrom(1, docs, Len(docs), cs, stat, prov, 0) IN
    IF r.status = "ok" THEN [r EXCEPT !.chunks = GC(r.docs, r.chunks)] ELSE r

(***************************************************************************)
(* Load and Grokker.Migrate.  A snapshot is [Version, Model, Documents,    *)
(* Chunks], the exported fields of the saved Grokker; g.maxChunkLen is not *)
(* saved and is 0 until initModel runs.                                    *)
(***************************************************************************)
\* the version Load gives a snapshot without one
DefaultVersion == "0.1.0"

\* Load's version test
VersionDiffersNever(v) == FALSE
VersionDiffers(v) == v # version

\* Load: [status, Version, Model, maxChunkLen]; status "exit" is os.Exit(1),
\* after which nothing is handed back
Load(snap, migrate) ==
    LET v == IF snap.Version = "" THEN DefaultVersion ELSE snap.Version IN
    IF migrate
    THEN [status |-> "ok", Version |-> v, Model |-> snap.Model, maxChunkLen |-> 0]
    ELSE IF VersionDiffers(v)
         THEN [status |-> "exit", Version |-> v, Model |-> snap.Model, maxChunkLen |-> 0]
         ELSE IF findModel(snap.Model) = None
              THEN [status |-> "notfound", Version |-> v, Model |-> snap.Model,
                    maxChunkLen |-> 0]
              ELSE [status |-> "ok", Version |-> v, Model |-> findModel(snap.Model),
                    maxChunkLen |-> ChunkLenOf(TokenLimitOf(findModel(snap.Model)))]

\* the version the step from 0.1.0 leaves
migrate_0_1_0_to_1_0_0(v) == "1.0.0"

\* Grokker.Migrate: [status, was, now, Model, maxChunkLen, docs, chunks, reqs]
Migrate(docs, cs, v, model, curLen, stat, prov) ==
    LET now == IF v = "0.1.0" THEN migrate_0_1_0_to_1_0_0(v) ELSE v IN
    IF findModel(model) = None
    THEN [status |-> "notfound", was |-> v, now |-> now, Model |-> model,
          maxChunkLen |-> curLen, docs |-> docs, chunks |-> cs, reqs |-> <<>>]
    ELSE LET r == RefreshEmbeddings(docs, cs, stat, prov) IN
         [status |-> r.status, was |-> v, now |-> now, Model |-> findModel(model),
          maxChunkLen |-> ChunkLenOf(TokenLimitOf(findModel(model))),
          docs |-> r.docs, chunks |-> r.chunks, reqs |-> r.reqs]

(***************************************************************************)
(* Grokker.AddDocument.                                                    *)
(***************************************************************************)
\* the loop that looks for a document with the same RelPath
TrackedNever(docs, doc) == FALSE
Tracked(docs, doc) == \E k \in 1..Len(docs) : docs[k] = doc

\* os.IsNotExist of the error os.Stat returned
NotExistNever(file) == FALSE
NotExist(file) == ~file.exists

\* g.Documents = append(g.Documents, doc)
WithDocumentLater(docs, doc) == docs
WithDocument(docs, doc) == Append(docs, doc)

AddDocument(docs, cs, doc, file, prov) ==
    IF NotExist(file)
    THEN [status |-> "notfound", docs |-> docs, chunks |-> cs, reqs |-> <<>>]
    ELSE LET docs2 == IF Tracked(docs, doc) THEN docs ELSE WithDocument(docs, doc)
             r == UpdateDocument(cs, doc, file, prov, 0)
         IN [status |-> r.status, docs |-> docs2, chunks |-> r.chunks, reqs |-> r.reqs]

(***************************************************************************)
(* The similarity engine.  A vector is a sequence of integers.  A score is *)
(* [dot, mag] and stands for the float dot / sqrt(mag), where mag is       *)
(* magA * magB; it is NaN (0 / 0) exactly when mag = 0.                     *)
(***************************************************************************)
\* the sum of a[i] * b[i] over the first n indices
RECURSIVE Dot(_, _, _)
Dot(a, b, n) == IF n = 0 THEN 0 ELSE Dot(a, b, n - 1) + a[n] * b[n]

\* the float 0
Zero == [dot |-> 0, mag |-> 1]

IsNaN(s) == s.mag = 0

Abs(x) == IF x < 0 THEN -x ELSE x

\* the float comparison s > t, false when either is NaN
Greater(s, t) ==
    /\ ~IsNaN(s)
    /\ ~IsNaN(t)
    /\ s.dot * Abs(s.dot) * t.mag > t.dot * Abs(t.dot) * s.mag

\* Similarity of grokker.go: the loop ranges over a and indexes b, which
\* panics (index out of range) when b is shorter
Similarity(a, b) ==
    IF Len(b) < Len(a)
    THEN [status |-> "panics", score |-> Zero]
    ELSE [status |-> "ok",
          score |-> [dot |-> Dot(a, b, Len(a)),
                     mag |-> Dot(a, a, Len(a)) * Dot(b, b, Len(a))]]

\* similarity of v3/util.go: 0 when the lengths differ
similarity(a, b) ==
    IF Len(a) # Len(b)
    THEN [status |-> "ok", score |-> Zero]
    ELSE [status |-> "ok",
          score |-> [dot |-> Dot(a, b, Len(a)),
                     mag |-> Dot(a, a, Len(a)) * Dot(b, b, Len(a))]]

\* sort.Slice with less(i, j) = sims[i].score > sims[j].score, on a slice
\* of fewer than 12 elements: an insertion sort.  p is the slice as a
\* sequence of chunk indices, sc the scores by chunk index.
Swap(p, i, j) == [p EXCEPT ![i] = p[j], ![j] = p[i]]

RECURSIVE Sink(_, _, _)
Sink(p, j, sc) ==
    IF j > 1 /\ Greater(sc[p[j]], sc[p[j - 1]])
    THEN Sink(Swap(p, j, j - 1), j - 1, sc)
    ELSE p

RECURSIVE InsertFrom(_, _, _)
InsertFrom(p, i, sc) ==
    IF i > Len(p) THEN p ELSE InsertFrom(Sink(p, i, sc), i + 1, sc)

SortSlice(sc) == InsertFrom([k \in 1..Len(sc) |-> k], 2, sc)

\* the number of chunks SimilarChunks returns
TopKOne(K, n) == IF n = 0 THEN 0 ELSE 1
TopK(K, n) == LET K2 == IF K = 0 THEN n ELSE K IN IF K2 < n THEN K2 ELSE n

\* Grokker.SimilarChunks: [status, scores, picked], picked the returned
\* chunks as indices of cs
SimilarChunksBy(cs, embedding, K) ==
    LET sims == [k \in 1..Len(cs) |-> Similarity(embedding, cs[k].emb)] IN
    IF \E k \in 1..Len(cs) : sims[k].status = "panics"
    THEN [status |-> "panics", scores |-> <<>>, picked |-> <<>>]
    ELSE LET sc == [k \in 1..Len(cs) |-> sims[k].score] IN
         [status |-> "ok", scores |-> sc,
          picked |-> SubSeq(SortSlice(sc), 1, TopK(K, Len(cs)))]

(***************************************************************************)
(* The context assembler: Grokker.Answer.                                  *)
(***************************************************************************)
\* len(promptTmpl)
promptTmplLen == 36

\* Grokker.SimilarChunks with K = 0: all chunks, in the order the scores
\* give; ranking is that order, a permutation of the chunk indices
Rankings(cs) == {r \in [1..Len(cs) -> 1..Len(cs)] : \A i, j \in 1..Len(cs) : i # j => r[i] # r[j]}
SimilarChunks(cs, ranking) == [k \in 1..Len(cs) |-> cs[ranking[k]]]

\* Spf("%s:\n\n%s\n\n", chunk.Document.RelPath, chunk.Text)
BlockCut(chunk) ==
    <<chunk.doc>> \o <<":", NL, NL>> \o SubSeq(chunk.text, 1, Len(chunk.text) - 1) \o <<NL, NL>>
Block(chunk) == <<chunk.doc>> \o <<":", NL, NL>> \o chunk.text \o <<NL, NL>>

\* int(float64(g.maxChunkLen)*0.5) - len(question)
MaxSize(question) == (maxChunkLen \div 2) - Len(question)

\* the loop over the ranked chunks from the k-th on
RECURSIVE AssembleFrom(_, _, _, _)
AssembleFrom(ranked, k, context, maxSize) ==
    IF k > Len(ranked) THEN context
    ELSE LET context2 == context \o Block(ranked[k]) IN
         IF Len(context2) + promptTmplLen > maxSize
         THEN context2
         ELSE AssembleFrom(ranked, k + 1, context2, maxSize)

\* Answer up to the call of Generate: [status, ranked, maxSize, context]
Answer(cs, question, ranking, prov) ==
    LET e == CreateEmbeddings(<<question>>, prov, 0) IN
    IF e.status # "ok"
    THEN [status |-> e.status, ranked |-> <<>>, maxSize |-> MaxSize(question), context |-> <<>>]
    ELSE LET ranked == SimilarChunks(cs, ranking) IN
         [status |-> "ok", ranked |-> ranked, maxSize |-> MaxSize(question),
          context |-> AssembleFrom(ranked, 1, <<>>, MaxSize(question))]

(***************************************************************************)
(* The calls, as actions.  last records the call that returned: op, its    *)
(* inputs (in), what it returned (out), the lists before it, and the call   *)
(* before it (prev) when this call followed it directly.  Return drops the  *)
(* record; a call is made after Return, or directly after the call it       *)
(* follows up.                                                              *)
(***************************************************************************)
NoPrev == [op |-> None, in |-> <<>>, out |-> <<>>, preDocuments |-> <<>>, preChunks |-> <<>>]

NoCall == [op |-> None, in |-> <<>>, out |-> <<>>, preDocuments |-> <<>>, preChunks |-> <<>>,
           prev |-> NoPrev]

Prev == [op |-> last.op, in |-> last.in, out |-> last.out,
         preDocuments |-> last.preDocuments, preChunks |-> last.preChunks]

Call(op, in, out) ==
    [op |-> op, in |-> in, out |-> out, preDocuments |-> Documents, preChunks |-> Chunks,
     prev |-> Prev]

Idle == last.op = None

\* the call made now directly follows the one recorded
FollowsUp == last.op # None /\ last.prev.op = None

\* a second UpdateDocument in a row: the first succeeded, on the same
\* document, and the file reads the same
Repeats(doc, file) ==
    /\ FollowsUp
    /\ last.op = "UpdateDocument"
    /\ last.out.status = "ok"
    /\ last.in.doc = doc
    /\ last.in.file = file

\* a GC directly after a successful UpdateDocument or a ForgetDocument
GCFollows ==
    /\ FollowsUp
    /\ \/ last.op = "UpdateDocument" /\ last.out.status = "ok"
       \/ last.op = "ForgetDocument"

\* Load ended the process
Exited == last.op = "Load" /\ last.out.status = "exit"

Return ==
    /\ ~Idle
    /\ ~Exited
    /\ last' = NoCall
    /\ UNCHANGED <<Documents, Chunks, settings>>

UpdateDocumentCall(D, T, P) ==
    \E doc \in D, file \in ReadFiles(T), prov \in P :
        /\ Idle \/ Repeats(doc, file)
        /\ \E r \in {UpdateDocument(Chunks, doc, file, prov, 0)} :
               /\ Len(r.chunks) <= MaxChunks
               /\ Chunks' = r.chunks
               /\ UNCHANGED <<Documents, settings>>
               /\ last' = Call("UpdateDocument",
                               [doc |-> doc, file |-> file, prov |-> prov],
                               [status |-> r.status, updated |-> r.updated,
                                reqs |-> r.reqs, sent |-> r.sent])

AddDocumentCall(D, T, P) ==
    \E doc \in D, file \in ReadFiles(T), prov \in P :
        /\ Idle
        /\ \E r \in {AddDocument(Documents, Chunks, doc, file, prov)} :
               /\ Len(r.chunks) <= MaxChunks
               /\ Documents' = r.docs
               /\ Chunks' = r.chunks
               /\ UNCHANGED settings
               /\ last' = Call("AddDocument",
                               [doc |-> doc, file |-> file, prov |-> prov],
                               [status |-> r.status, reqs |-> r.reqs])

ForgetDocumentCall(D) ==
    \E path \in Paths(D) :
        /\ Idle
        /\ Documents' = ForgetDocument(Documents, path)
        /\ UNCHANGED <<Chunks, settings>>
        /\ last' = Call("ForgetDocument", [path |-> path], [status |-> "ok"])

GCCall ==
    /\ Idle \/ GCFollows
    /\ Chunks' = GC(Documents, Chunks)
    /\ UNCHANGED <<Documents, settings>>
    /\ last' = Call("GC", <<>>, [status |-> "ok"])

UpdateEmbeddingsCall(D, T, P) ==
    \E stat \in [D -> StatFiles(T)], prov \in P :
        /\ Idle
        /\ \E r \in {UpdateEmbeddings(Documents, Chunks, stat, prov)} :
               /\ Len(r.chunks) <= MaxChunks
               /\ Documents' = r.docs
               /\ Chunks' = r.chunks
               /\ UNCHANGED settings
               /\ last' = Call("UpdateEmbeddings",
                               [stat |-> stat, prov |-> prov],
                               [status |-> r.status, update |-> r.update,
                                reqs |-> r.reqs, synced |-> r.synced])

AnswerCall(Q, P) ==
    \E question \in Q, ranking \in Rankings(Chunks), prov \in P :
        /\ Idle
        /\ \E r \in {Answer(Chunks, question, ranking, prov)} :
               /\ UNCHANGED <<Documents, Chunks, settings>>
               /\ last' = Call("Answer",
                               [question |-> question, ranking |-> ranking, prov |-> prov],
                               [status |-> r.status, ranked |-> r.ranked,
                                maxSize |-> r.maxSize, context |-> r.context])

CreateEmbeddingsCall(TL, P) ==
    \E texts \in TL, prov \in P :
        /\ Idle
        /\ \E r \in {CreateEmbeddings(texts, prov, 0)} :
               /\ UNCHANGED <<Documents, Chunks, settings>>
               /\ last' = Call("CreateEmbeddings",
                               [texts |-> texts, prov |-> prov],
                               [status |-> r.status, reqs |-> r.reqs,
                                embeddings |-> r.embeddings])

chunksCall(T, L) ==
    \E txt \in T, maxLen \in L :
        /\ Idle
        /\ \E r \in {ChunksResult(txt, maxLen)} :
               /\ UNCHANGED <<Documents, Chunks, settings>>
               /\ last' = Call("chunks", [txt |-> txt, maxLen |-> maxLen],
                               [status |-> r.status, c |-> r.c])

UpgradeModelCall(MS) ==
    \E model \in MS :
        /\ Idle
        /\ \E r \in {UpgradeModel(Model, maxChunkLen, model)} :
               /\ Model' = r.Model
               /\ maxChunkLen' = r.maxChunkLen
               /\ UNCHANGED <<Documents, Chunks, Version>>
               /\ last' = Call("UpgradeModel",
                               [model |-> model, Model |-> Model, maxChunkLen |-> maxChunkLen],
                               [status |-> r.status])

LoadCall(S) ==
    \E snap \in S, migrate \in BOOLEAN :
        /\ Idle
        /\ \E r \in {Load(snap, migrate)} :
               /\ IF r.status = "exit"
                  THEN UNCHANGED <<Documents, Chunks, settings>>
                  ELSE /\ Documents' = snap.Documents
                       /\ Chunks' = snap.Chunks
                       /\ Version' = r.Version
                       /\ Model' = r.Model
                       /\ maxChunkLen' = r.maxChunkLen
               /\ last' = Call("Load", [snap |-> snap, migrate |-> migrate],
                               [status |-> r.status])

MigrateCall(D, T, P) ==
    \E stat \in [D -> ReadFiles(T)], prov \in P :
        /\ Idle
        /\ \E r \in {Migrate(Documents, Chunks, Version, Model, maxChunkLen, stat, prov)} :
               /\ Len(r.chunks) <= MaxChunks
               /\ Documents' = r.docs
               /\ Chunks' = r.chunks
               /\ Version' = r.now
               /\ Model' = r.Model
               /\ maxChunkLen' = r.maxChunkLen
               /\ last' = Call("Migrate", [stat |-> stat, prov |-> prov],
                               [status |-> r.status, was |-> r.was, now |-> r.now,
                                reqs |-> r.reqs])

SimilarChunksCall(V, KS) ==
    \E embedding \in V, K \in KS :
        /\ Idle
        /\ \E r \in {SimilarChunksBy(Chunks, embedding, K)} :
               /\ UNCHANGED <<Documents, Chunks, settings>>
               /\ last' = Call("SimilarChunks", [embedding |-> embedding, K |-> K],
                               [status |-> r.status, scores |-> r.scores,
                                picked |-> r.picked])

similarityCall(V) ==
    \E a \in V, b \in V :
        /\ Idle
        /\ \E r \in {similarity(a, b)} :
               /\ UNCHANGED <<Documents, Chunks, settings>>
               /\ last' = Call("similarity", [a |-> a, b |-> b],
                               [status |-> r.status, score |-> r.score])

\* the knowledge base New(rootdir, model) creates
NewWith(model) ==
    /\ findModel(model) # None
    /\ Documents = <<>>
    /\ Chunks = <<>>
    /\ Version = version
    /\ Model = findModel(model)
    /\ maxChunkLen = ChunkLenOf(TokenLimitOf(findModel(model)))
    /\ last = NoCall

\* a knowledge base created by New with the default model
Init == NewWith("")

(***************************************************************************)
(* Spec: the knowledge base over three documents whose files are empty or   *)
(* hold one character.                                                      *)
(***************************************************************************)
Docs3 == {"a", "b", "c"}
SmallFiles == StringsUpTo({"x"}, 1)
OneGen == [gen : {1}, failAt : 0..MaxFailAt]

Next ==
    \/ AddDocumentCall(Docs3, SmallFiles, Providers)
    \/ UpdateDocumentCall(Docs3, SmallFiles, Providers)
    \/ ForgetDocumentCall(Docs3)
    \/ GCCall
    \/ UpdateEmbeddingsCall(Docs3, SmallFiles, OneGen)
    \/ Return

Spec == Init /\ [][Next]_vars

(***************************************************************************)
(* SpecSync: UpdateDocument and GC on document "a", whose file holds up to  *)
(* MaxParagraphs paragraphs, next to document "b".  It starts where         *)
(* AddDocument of "b" with the file "x" and of "a" with an empty file leave  *)
(* a new knowledge base.                                                    *)
(***************************************************************************)
RECURSIVE Join(_)
Join(ps) ==
    IF ps = <<>> THEN <<>>
    ELSE IF Len(ps) = 1 THEN ps[1]
    ELSE ps[1] \o <<NL, NL>> \o Join(Tail(ps))

Paragraphs == StringsUpTo({"x"}, MaxParagraphLen) \ {<<>>}
Contents == {Join(ps) : ps \in UNION {[1..n -> Paragraphs] : n \in 0..MaxParagraphs}}

InitSync ==
    /\ Documents = <<"b", "a">>
    /\ Chunks = <<[doc |-> "b", text |-> <<"x">>,
                   emb |-> Embedding(<<"x">>, [gen |-> 1, failAt |-> 0])]>>
    /\ Version = version
    /\ Model = DefaultModel
    /\ maxChunkLen = ChunkLenOf(TokenLimitOf(DefaultModel))
    /\ last = NoCall

NextSync ==
    \/ UpdateDocumentCall({"a"}, Contents, Providers)
    \/ GCCall
    \/ Return

SpecSync == InitSync /\ [][NextSync]_vars

(***************************************************************************)
(* SpecLong: AddDocument and UpdateDocument of document "a", whose file     *)
(* holds the contents of SpecSync or one paragraph of up to MaxTextLen      *)
(* characters, longer than maxEmbeddingChunkLen included.                   *)
(***************************************************************************)
LongContents == Contents \cup StringsUpTo({"x"}, MaxTextLen)

InitLong ==
    /\ Documents = <<>>
    /\ Chunks = <<>>
    /\ Version = version
    /\ Model = DefaultModel
    /\ maxChunkLen = ChunkLenOf(TokenLimitOf(DefaultModel))
    /\ last = NoCall

NextLong ==
    \/ AddDocumentCall({"a"}, LongContents, OneGen)
    \/ UpdateDocumentCall({"a"}, LongContents, OneGen)
    \/ Return

SpecLong == InitLong /\ [][NextLong]_vars

(***************************************************************************)
(* SpecBatch: CreateEmbeddings on lists of up to MaxTexts texts, a text of  *)
(* length 0 and one longer than maxEmbeddingChunkLen included.              *)
(***************************************************************************)
BatchTexts == StringsUpTo({"x"}, maxEmbeddingChunkLen + 1)
TextLists == UNION {[1..n -> BatchTexts] : n \in 0..MaxTexts}

NextBatch ==
    \/ CreateEmbeddingsCall(TextLists, OneGen)
    \/ Return

SpecBatch == Init /\ [][NextBatch]_vars

(***************************************************************************)
(* SpecModel: UpgradeModel on a knowledge base created with any model, to  *)
(* which documents are added.                                               *)
(***************************************************************************)
ModelArgs == ModelNames \cup {"", "gpt-5"}

InitModel == \E model \in ModelArgs : NewWith(model)

NextModel ==
    \/ UpgradeModelCall(ModelArgs)
    \/ AddDocumentCall({"a", "b"}, SmallFiles, {[gen |-> 1, failAt |-> 0]})
    \/ Return

SpecModel == InitModel /\ [][NextModel]_vars

(***************************************************************************)
(* SpecLoad: Load of a saved snapshot, with and without migrate, and        *)
(* Migrate on what was loaded.                                              *)
(***************************************************************************)
Versions == {"", "0.1.0", version, "2.0.0"}

\* a chunk as an earlier run saved it
SavedChunk(doc) == [doc |-> doc, text |-> <<"x">>, emb |-> Embedding(<<"x">>, [gen |-> 1])]

SavedLists ==
    {[Documents |-> <<>>, Chunks |-> <<>>],
     [Documents |-> <<"a">>, Chunks |-> <<SavedChunk("a")>>],
     [Documents |-> <<"a", "b">>, Chunks |-> <<SavedChunk("a"), SavedChunk("b")>>]}

Snapshots ==
    {[Version |-> v, Model |-> m, Documents |-> l.Documents, Chunks |-> l.Chunks]
     : v \in Versions, m \in {"", "gpt-4", "gpt-5"}, l \in SavedLists}

NextLoad ==
    \/ LoadCall(Snapshots)
    \/ MigrateCall({"a", "b"}, SmallFiles, Providers)
    \/ Return

SpecLoad == Init /\ [][NextLoad]_vars

(***************************************************************************)
(* SpecRank: SimilarChunks and similarity on a knowledge base whose chunks *)
(* carry vectors of up to MaxDim coordinates.                              *)
(***************************************************************************)
Coords == {0, 1}
Vectors == UNION {[1..n -> Coords] : n \in 0..MaxDim}

RankedChunks ==
    UNION {[1..n -> [doc : {"a"}, text : {<<"x">>}, emb : Vectors]] : n \in 0..MaxChunks}

InitRank ==
    /\ Documents = <<"a">>
    /\ Chunks \in RankedChunks
    /\ Version = version
    /\ Model = DefaultModel
    /\ maxChunkLen = ChunkLenOf(TokenLimitOf(DefaultModel))
    /\ last = NoCall

NextRank ==
    \/ SimilarChunksCall(Vectors, 0..MaxChunks)
    \/ similarityCall(Vectors)
    \/ Return

SpecRank == InitRank /\ [][NextRank]_vars

(***************************************************************************)
(* SpecChunk: chunks on every text of up to MaxTextLen characters, two     *)
(* letters and the newline, with every maxLen from 1 to MaxLen.             *)
(***************************************************************************)
Chars == {"x", "y", NL}
Texts == StringsUpTo(Chars, MaxTextLen)

NextChunk ==
    \/ chunksCall(Texts, 1..MaxLen)
    \/ Return

SpecChunk == Init /\ [][NextChunk]_vars

(***************************************************************************)
(* SpecAnswer: Answer on a loaded knowledge base, for every model.          *)
(***************************************************************************)
LoadedChunks ==
    UNION {[1..n -> [doc : {"a"}, text : Paragraphs, emb : {Embedding(<<"x">>, [gen |-> 1])}]]
           : n \in 0..MaxChunks}

InitAnswer ==
    /\ Documents = <<"a">>
    /\ Chunks \in LoadedChunks
    /\ Version = version
    /\ Model \in ModelNames
    /\ maxChunkLen = ChunkLenOf(TokenLimitOf(Model))
    /\ last = NoCall

NextAnswer ==
    \/ AnswerCall(StringsUpTo({"x"}, MaxQuestionLen), [gen : {1}, failAt : 0..1])
    \/ Return

SpecAnswer == InitAnswer /\ [][NextAnswer]_vars

(***************************************************************************)
(* The claims.                                                             *)
(***************************************************************************)
Range(s) == {s[k] : k \in 1..Len(s)}

\* the number of elements of s equal to e
Count(s, e) == Cardinality({k \in 1..Len(s) : s[k] = e})

\* s is t cut after some element
IsPrefix(s, t) == Len(s) <= Len(t) /\ SubSeq(t, 1, Len(s)) = s

\* C1: the context Answer assembles never exceeds the byte budget
\* (maxSize, when it is not negative), also when the first block alone is
\* larger than it.
C1_ContextWithinBudget ==
    (last.op = "Answer" /\ last.out.status = "ok" /\ last.out.maxSize >= 0)
        => Len(last.out.context) <= last.out.maxSize

\* C2: after UpdateDocument(D) on a tracked document followed by GC, no
\* chunk of D has a text that chunking D's current content does not give.
C2_StaleChunksCollected ==
    (/\ last.op = "GC"
     /\ last.prev.op = "UpdateDocument"
     /\ last.prev.out.status = "ok"
     /\ Tracked(Documents, last.prev.in.doc))
        => \A k \in 1..Len(Chunks) :
               Chunks[k].doc = last.prev.in.doc
                   => Chunks[k].text \in Range(chunkStrings(last.prev.in.file.content))

\* C3: after a refresh pass that returns without error, every document
\* tracked at its start whose file is missing is off the document list.
C3_MissingDetached ==
    (last.op = "UpdateEmbeddings" /\ last.out.status = "ok")
        => \A d \in Range(last.preDocuments) :
               ~last.in.stat[d].exists => ~Tracked(Documents, d)

\* C4: during a refresh pass that returns without error, UpdateDocument is
\* applied to every tracked document whose file exists and is newer than
\* lastUpdate.
C4_NewerResynced ==
    (last.op = "UpdateEmbeddings" /\ last.out.status = "ok")
        => \A d \in Range(last.preDocuments) :
               (last.in.stat[d].exists /\ last.in.stat[d].newer)
                   => d \in Range(last.out.synced)

\* a second UpdateDocument directly after a successful first one, of the
\* same document, the file reading the same
SecondUpdate ==
    /\ last.op = "UpdateDocument"
    /\ last.prev.op = "UpdateDocument"
    /\ last.prev.out.status = "ok"
    /\ last.prev.in.doc = last.in.doc
    /\ last.prev.in.file = last.in.file

\* C5: UpdateDocument called again with the file unchanged creates no
\* chunk, sends nothing to the provider, leaves the chunk list as it was
\* and reports changed = false.
C5_Idempotent ==
    SecondUpdate
        => /\ last.out.status = "ok"
           /\ last.out.sent = <<>>
           /\ last.out.reqs = <<>>
           /\ last.out.updated = FALSE
           /\ Chunks = last.preChunks

\* C5's case: the second call happened on a file with two identical
\* paragraphs, whose chunks are stored
C5_Witness ==
    /\ SecondUpdate
    /\ last.in.file.content = <<"x", NL, NL, "x">>
    /\ Count([k \in 1..Len(Chunks) |-> <<Chunks[k].doc, Chunks[k].text>>],
             <<last.in.doc, <<"x">>>>) >= 2

\* the i-th chunk string has no stored chunk left to match: the stored
\* chunks of doc with its text are fewer than its occurrences up to i
Unmatched(pre, doc, strs, i) ==
    Cardinality({j \in 1..i : strs[j] = strs[i]})
        > Cardinality({k \in 1..Len(pre) : pre[k].doc = doc /\ pre[k].text = strs[i]})

ExpectedSent(pre, doc, strs) ==
    SelectSeq([i \in 1..Len(strs) |-> <<i, strs[i]>>],
              LAMBDA p : Unmatched(pre, doc, strs, p[1]))

\* C6: UpdateDocument hands to the provider exactly the chunk strings left
\* without a match among the chunks stored for the document, a stored
\* chunk matching at most one string; every stored chunk, of any document,
\* stays in place with its text and embedding, and the new chunks follow.
C6_SendsUnmatchedOnly ==
    (last.op = "UpdateDocument" /\ last.in.file.exists)
        => LET strs == chunkStrings(last.in.file.content)
               want == ExpectedSent(last.preChunks, last.in.doc, strs)
           IN /\ last.out.sent = [k \in 1..Len(want) |-> want[k][2]]
              /\ IsPrefix(Concat(last.out.reqs), last.out.sent)
              /\ last.out.status = "ok" => Concat(last.out.reqs) = last.out.sent
              /\ IsPrefix(last.preChunks, Chunks)
              /\ last.out.status = "ok" =>
                     /\ Len(Chunks) = Len(last.preChunks) + Len(want)
                     /\ \A k \in 1..Len(want) :
                            Chunks[Len(last.preChunks) + k]
                                = [doc |-> last.in.doc, text |-> want[k][2],
                                   emb |-> Embedding(want[k][2], last.in.prov)]
              /\ last.out.status # "ok" => Chunks = last.preChunks

\* C6's case: of two equal chunk strings one matched the only stored chunk
\* with that text, held with an embedding of another generation, and the
\* other was sent; another document's chunk is stored too
C6_Witness ==
    /\ last.op = "UpdateDocument"
    /\ last.out.status = "ok"
    /\ chunkStrings(last.in.file.content) = <<<<"x">>, <<"x">>>>
    /\ last.out.sent = <<<<"x">>>>
    /\ \E k \in 1..Len(last.preChunks) :
           /\ last.preChunks[k].doc = last.in.doc
           /\ last.preChunks[k].emb.gen # last.in.prov.gen
    /\ \E k \in 1..Len(last.preChunks) : last.preChunks[k].doc # last.in.doc

\* the indices of the chunks of pre whose document is on the list docs
KeptIndices(docs, pre) == {k \in 1..Len(pre) : pre[k].doc \in Range(docs)}

\* the j-th smallest number of K
Nth(K, j) == CHOOSE k \in K : Cardinality({m \in K : m <= k}) = j

\* GC keeps, in order, the chunks whose document is on the document list,
\* removes every other chunk and leaves the document list alone
GCExact ==
    last.op = "GC"
        => LET K == KeptIndices(Documents, last.preChunks) IN
           /\ Documents = last.preDocuments
           /\ Len(Chunks) = Cardinality(K)
           /\ \A j \in 1..Len(Chunks) : Chunks[j] = last.preChunks[Nth(K, j)]

\* the GC directly follows ForgetDocument(path), path naming document D only
GCAfterForget(D) ==
    /\ last.op = "GC"
    /\ last.prev.op = "ForgetDocument"
    /\ last.prev.in.path \in {[rel |-> D, abs |-> D], [rel |-> D, abs |-> None],
                              [rel |-> None, abs |-> D]}

\* C7, as claimed: GC removes exactly the chunks whose document is not on
\* the document list; after ForgetDocument(D) it removes exactly the chunks
\* whose document was D.
C7_RemovesExactlyForgotten ==
    /\ GCExact
    /\ \A D \in Docs3 :
           GCAfterForget(D)
               => Chunks = SelectSeq(last.preChunks, LAMBDA c : c.doc # D)

\* C7, amended: GC removes exactly the chunks whose document is not on the
\* document list; after ForgetDocument(D) it removes every chunk whose
\* document was D and none of a document still tracked, and exactly D's
\* chunks when no chunk was orphaned before the ForgetDocument.
C7_GCRemovesOrphans ==
    /\ GCExact
    /\ \A D \in Docs3 :
           GCAfterForget(D)
               => /\ \A k \in 1..Len(Chunks) : Chunks[k].doc # D
                  /\ \A c \in Range(last.preChunks) :
                         Tracked(Documents, c.doc) => Count(Chunks, c) = Count(last.preChunks, c)
                  /\ (\A c \in Range(last.preChunks) : Tracked(last.prev.preDocuments, c.doc))
                         => Chunks = SelectSeq(last.preChunks, LAMBDA c : c.doc # D)

\* C7's case: GC after ForgetDocument(D) removed a chunk of D and a chunk
\* orphaned earlier, and kept a chunk of a tracked document
C7_Witness ==
    \E D \in Docs3 :
        /\ GCAfterForget(D)
        /\ \E c \in Range(last.preChunks) : c.doc = D
        /\ \E c \in Range(last.preChunks) : c.doc # D /\ ~Tracked(last.prev.preDocuments, c.doc)
        /\ Chunks # <<>>

\* C8: every request CreateEmbeddings issues has a sum of item lengths
\* strictly below maxEmbeddingChunkLen.
C8_RequestBelowLimit ==
    last.op = "CreateEmbeddings"
        => \A k \in 1..Len(last.out.reqs) : SumLen(last.out.reqs[k]) < maxEmbeddingChunkLen

\* C8's case: two requests were issued, one of two items filling the
\* request up to one below the limit
C8_Witness ==
    /\ last.op = "CreateEmbeddings"
    /\ Len(last.out.reqs) >= 2
    /\ \E k \in 1..Len(last.out.reqs) :
           Len(last.out.reqs[k]) >= 2 /\ SumLen(last.out.reqs[k]) = maxEmbeddingChunkLen - 1

\* every text passes the per-item assertions of CreateEmbeddings
PerItemValid(texts) ==
    \A k \in 1..Len(texts) : Len(texts[k]) > 0 /\ Len(texts[k]) <= maxEmbeddingChunkLen

\* C9: a text whose length equals maxEmbeddingChunkLen is accepted as a
\* batch of exactly one item: the call completes and returns its embedding.
C9_ItemAtLimitAccepted ==
    (/\ last.op = "CreateEmbeddings"
     /\ PerItemValid(last.in.texts)
     /\ \E k \in 1..Len(last.in.texts) : Len(last.in.texts[k]) = maxEmbeddingChunkLen
     /\ last.in.prov.failAt = 0)
        => /\ last.out.status = "ok"
           /\ Len(last.out.embeddings) = Len(last.in.texts)
           /\ \A k \in 1..Len(last.out.reqs) :
                  (\E t \in Range(last.out.reqs[k]) : Len(t) = maxEmbeddingChunkLen)
                      => Len(last.out.reqs[k]) = 1

\* A partition of texts into consecutive batches is the set of the
\* positions after which it cuts.  The batch that starts at s ends at the
\* next cut.
BatchEnd(texts, cuts, s) ==
    IF \E c \in cuts : c >= s
    THEN CHOOSE c \in cuts : c >= s /\ \A c2 \in cuts : c2 >= s => c <= c2
    ELSE Len(texts)

\* no batch of the partition reaches the limit
ValidPartition(texts, cuts) ==
    \A s \in {1} \cup {c + 1 : c \in cuts} :
        SumLen(SubSeq(texts, s, BatchEnd(texts, cuts, s))) < maxEmbeddingChunkLen

\* C10: on per-item-valid texts the requests CreateEmbeddings issues are
\* themselves a partition of the list into consecutive batches below the
\* limit, and no such partition has fewer batches.
C10_FewestRequests ==
    (last.op = "CreateEmbeddings" /\ PerItemValid(last.in.texts))
        => LET texts == last.in.texts
               reqs == last.out.reqs
           IN /\ Len(texts) = 0 => reqs = <<>>
              /\ last.out.status = "ok" =>
                     /\ Concat(reqs) = texts
                     /\ \A k \in 1..Len(reqs) :
                            reqs[k] # <<>> /\ SumLen(reqs[k]) < maxEmbeddingChunkLen
              /\ \A cuts \in SUBSET (1..(Len(texts) - 1)) :
                     (Len(texts) > 0 /\ ValidPartition(texts, cuts))
                         => /\ last.out.status # "assert"
                            /\ last.out.status = "ok" => Len(reqs) <= Cardinality(cuts) + 1

\* C10's case: three texts went out in two requests, the first of two items
C10_Witness ==
    /\ last.op = "CreateEmbeddings"
    /\ last.out.status = "ok"
    /\ Len(last.in.texts) >= 3
    /\ Len(last.out.reqs) = 2
    /\ Len(last.out.reqs[1]) = 2

\* C11: when CreateEmbeddings returns, all requests having succeeded, it
\* returns one embedding per input text, the i-th being that of the i-th
\* text, and the requests are consecutive slices that cover the list in
\* order; the requests issued before a failure are such slices of a prefix.
C11_EmbeddingsInInputOrder ==
    last.op = "CreateEmbeddings"
        => /\ IsPrefix(Concat(last.out.reqs), last.in.texts)
           /\ last.out.status = "ok"
                  => /\ Concat(last.out.reqs) = last.in.texts
                     /\ Len(last.out.embeddings) = Len(last.in.texts)
                     /\ \A k \in 1..Len(last.in.texts) :
                            last.out.embeddings[k] = Embedding(last.in.texts[k], last.in.prov)

\* C11's case: texts of different lengths went out in three requests or
\* more and the call returned
C11_Witness ==
    /\ last.op = "CreateEmbeddings"
    /\ last.out.status = "ok"
    /\ Len(last.out.reqs) >= 3
    /\ \E k \in 1..(Len(last.in.texts) - 1) : last.in.texts[k] # last.in.texts[k + 1]

\* a provider that never fails
NoFail == [gen |-> 1, failAt |-> 0]

\* the number of requests embedding texts takes when none fails
RequestsNeeded(texts) == Len(CreateEmbeddings(texts, NoFail, 0).reqs)

\* C12: when a provider request fails while UpdateDocument embeds its new
\* chunk strings, the first or a later one, the call ends with an error at
\* that request and the chunk list is the one before the call.
C12_FailureAppendsNothing ==
    (/\ last.op = "UpdateDocument"
     /\ last.in.file.exists
     /\ last.in.prov.failAt \in 1..RequestsNeeded(last.out.sent))
        => /\ last.out.status = "error"
           /\ Len(last.out.reqs) = last.in.prov.failAt
           /\ Chunks = last.preChunks

\* C12's case: the second request failed after the first succeeded, on a
\* document that has a chunk stored
C12_Witness ==
    /\ last.op = "UpdateDocument"
    /\ last.out.status = "error"
    /\ last.in.prov.failAt = 2
    /\ Len(last.out.reqs) = 2
    /\ \E k \in 1..Len(Chunks) : Chunks[k].doc = last.in.doc

\* C13: when chunks returns, for a positive maxLen, every piece has a
\* length of at most maxLen.
C13_PiecesWithinMaxLen ==
    (last.op = "chunks" /\ last.out.status = "ok")
        => \A k \in 1..Len(last.out.c) : Len(last.out.c[k]) <= last.in.maxLen

\* the paragraphs of txt that are not empty
NonEmptyParagraphs(txt) == SelectSeq(SplitParagraphs(txt, <<>>), LAMBDA q : q # <<>>)

\* C13's case: chunks returned more pieces than the text has paragraphs
C13_Witness ==
    /\ last.op = "chunks"
    /\ last.out.status = "ok"
    /\ Len(NonEmptyParagraphs(last.in.txt)) >= 2
    /\ Len(last.out.c) > Len(NonEmptyParagraphs(last.in.txt))

\* q cut into consecutive slices of n characters, the last one shorter
\* when n does not divide its length
Slices(q, n) ==
    [k \in 1..((Len(q) + n - 1) \div n) |->
        SubSeq(q, (k - 1) * n + 1, IF k * n <= Len(q) THEN k * n ELSE Len(q))]

\* the pieces of the paragraphs qs when a paragraph that is not empty and
\* satisfies Whole is one piece and another is cut into slices of n
RECURSIVE PiecesOf(_, _, _)
PiecesOf(qs, whole, n) ==
    IF qs = <<>> THEN <<>>
    ELSE (IF Head(qs) = <<>> THEN <<>>
          ELSE IF Len(Head(qs)) <= whole THEN <<Head(qs)>>
          ELSE Slices(Head(qs), n))
         \o PiecesOf(Tail(qs), whole, n)

\* C14, as claimed: a paragraph of length at most maxLen is one piece, a
\* longer one is cut into slices of maxLen characters.
C14_SplitsOnlyLongerThanMaxLen ==
    (last.op = "chunks" /\ last.out.status = "ok")
        => last.out.c = PiecesOf(SplitParagraphs(last.in.txt, <<>>),
                                 last.in.maxLen, last.in.maxLen)

\* C14, amended: a paragraph shorter than maxLen is one piece, one of
\* length maxLen or more is cut into slices of maxLen - 1 characters; with
\* maxLen = 1 chunks returns only when no paragraph has a character, and
\* then without a piece.
C14_SplitsFromMaxLen ==
    (last.op = "chunks" /\ last.out.status = "ok")
        => IF last.in.maxLen = 1
           THEN last.out.c = <<>> /\ NonEmptyParagraphs(last.in.txt) = <<>>
           ELSE last.out.c = PiecesOf(SplitParagraphs(last.in.txt, <<>>),
                                      last.in.maxLen - 1, last.in.maxLen - 1)

\* C14's case: one paragraph of exactly maxLen characters and a shorter one
C14_Witness ==
    /\ last.op = "chunks"
    /\ last.out.status = "ok"
    /\ \E q \in Range(NonEmptyParagraphs(last.in.txt)) : Len(q) = last.in.maxLen
    /\ \E q \in Range(NonEmptyParagraphs(last.in.txt)) : Len(q) < last.in.maxLen

\* C15: UpgradeModel to a model with a smaller token limit fails and leaves
\* the active model and g.maxChunkLen as they were; no step of the program
\* lowers the token limit of the active model.
C15_NoDowngrade ==
    /\ [](last.op = "UpgradeModel"
             => /\ TokenLimitOf(Model) >= TokenLimitOf(last.in.Model)
                /\ maxChunkLen = ChunkLenOf(TokenLimitOf(Model))
                /\ (/\ findModel(last.in.model) # None
                    /\ TokenLimitOf(findModel(last.in.model)) < TokenLimitOf(last.in.Model))
                       => /\ last.out.status = "downgrade"
                          /\ Model = last.in.Model
                          /\ maxChunkLen = last.in.maxChunkLen)
    /\ [][TokenLimitOf(Model') >= TokenLimitOf(Model)]_vars

\* C15's case: an upgrade succeeded and the UpgradeModel that followed, to
\* the smaller model the knowledge base was created with, failed
C15_Witness ==
    /\ last.op = "UpgradeModel"
    /\ last.out.status = "downgrade"
    /\ last.in.model = "gpt-3.5-turbo"
    /\ Model = "gpt-4-32k"
    /\ Documents # <<>>

\* C16: Load without migrate hands back only a knowledge base whose version
\* is the running one; a snapshot without a version counts as "0.1.0"; on
\* a version that differs Load stops the program; with migrate the version
\* is not tested and the knowledge base comes back with the version the
\* snapshot has, or the default.
C16_LoadChecksVersion ==
    last.op = "Load"
        => LET snap == last.in.snap
               v == IF snap.Version = "" THEN "0.1.0" ELSE snap.Version
           IN IF last.in.migrate
              THEN last.out.status = "ok" /\ Version = v
              ELSE /\ last.out.status = "exit" <=> v # version
                   /\ last.out.status # "exit" => Version = version /\ Version = v
                   /\ last.out.status = "exit"
                          => Documents = last.preDocuments /\ Chunks = last.preChunks

\* C16's case: a snapshot without a version was loaded with migrate, then
\* the same kind of snapshot without migrate stopped the program
C16_Witness ==
    /\ last.op = "Load"
    /\ last.in.snap.Version = ""
    /\ ~last.in.migrate
    /\ last.out.status = "exit"
    /\ Version = "0.1.0"

\* C17: after a successful Migrate every chunk of the knowledge base carries
\* an embedding the provider returned during that Migrate; no chunk keeps
\* the embedding of the snapshot, also when its text is the same.
C17_AllEmbeddingsRegenerated ==
    (last.op = "Migrate" /\ last.out.status = "ok")
        => \A k \in 1..Len(Chunks) :
               Chunks[k].emb = Embedding(Chunks[k].text, last.in.prov)

\* C18: UpdateEmbeddings returns true exactly when the pass, its final GC
\* included, left a document list or a chunk list that differs from the one
\* before it.
C18_ReportsEveryChange ==
    (last.op = "UpdateEmbeddings" /\ last.out.status = "ok")
        => (last.out.update <=> (Documents # last.preDocuments \/ Chunks # last.preChunks))

\* C19: no two entries of g.Documents have the same RelPath, and an
\* AddDocument of a path that is already in the list leaves the list as it
\* was.
C19_RelPathsUnique ==
    /\ \A i, j \in 1..Len(Documents) : Documents[i] = Documents[j] => i = j
    /\ (last.op = "AddDocument" /\ last.in.doc \in Range(last.preDocuments))
           => Documents = last.preDocuments

\* C19's case: a successful AddDocument of a path that was already tracked
\* beside another document
C19_Witness ==
    /\ last.op = "AddDocument"
    /\ last.out.status = "ok"
    /\ last.in.doc \in Range(last.preDocuments)
    /\ Len(last.preDocuments) = 2

\* C20: AddDocument of a path whose file does not exist returns the not
\* found error, sends nothing to the provider and leaves g.Documents and
\* g.Chunks as they were.
C20_MissingFileAddsNothing ==
    (last.op = "AddDocument" /\ ~last.in.file.exists)
        => /\ last.out.status = "notfound"
           /\ last.out.reqs = <<>>
           /\ Documents = last.preDocuments
           /\ Chunks = last.preChunks

\* C20's case: the file of a path that is not tracked is missing, in a
\* knowledge base that holds a document and a chunk
C20_Witness ==
    /\ last.op = "AddDocument"
    /\ ~last.in.file.exists
    /\ last.in.doc \notin Range(Documents)
    /\ Documents # <<>>
    /\ Chunks # <<>>

\* the entries of s that the path names, by RelPath or by absolute path
Named(s, path) == {k \in 1..Len(s) : s[k] = path.rel \/ s[k] = path.abs}

\* C21: ForgetDocument leaves g.Chunks as it was; when no entry of
\* g.Documents matches the path it leaves the list as it was; otherwise the
\* list afterwards is the list before without its first matching entry, the
\* other entries in their order.
C21_ForgetsFirstMatchOnly ==
    last.op = "ForgetDocument"
        => LET pre == last.preDocuments
               named == Named(pre, last.in.path)
           IN /\ Chunks = last.preChunks
              /\ named = {} => Documents = pre
              /\ named # {}
                     => \E i \in named :
                            /\ \A k \in named : i <= k
                            /\ Documents = SubSeq(pre, 1, i - 1) \o SubSeq(pre, i + 1, Len(pre))

\* C21's case: the path matches two of three documents, one by RelPath and
\* one by absolute path, the knowledge base holds chunks, and one entry
\* went
C21_Witness ==
    /\ last.op = "ForgetDocument"
    /\ Len(last.preDocuments) = 3
    /\ Cardinality(Named(last.preDocuments, last.in.path)) = 2
    /\ Len(Documents) = 2
    /\ Chunks # <<>>

\* C22: similarity of two vectors of different lengths is 0, and
\* SimilarChunks does not panic, whatever the lengths of the query
\* embedding and of the embeddings of the chunks.
C22_RanksAnyDimensions ==
    /\ (last.op = "similarity" /\ Len(last.in.a) # Len(last.in.b))
           => last.out.status = "ok" /\ last.out.score = Zero
    /\ last.op = "SimilarChunks" => last.out.status = "ok"

\* C23: SimilarChunks returns min(K, n) of the n stored chunks, all n for
\* K = 0, each a stored chunk and none twice, no returned chunk scoring
\* higher than one returned before it, and no chunk left out scoring
\* higher than one returned.
C23_TopKInScoreOrder ==
    (last.op = "SimilarChunks" /\ last.out.status = "ok")
        => LET n == Len(Chunks)
               K == last.in.K
               picked == last.out.picked
               sc == last.out.scores
           IN /\ Len(picked) = IF K = 0 \/ K > n THEN n ELSE K
              /\ \A i \in 1..Len(picked) : picked[i] \in 1..n
              /\ \A i, j \in 1..Len(picked) : picked[i] = picked[j] => i = j
              /\ \A i, j \in 1..Len(picked) :
                     i < j => ~Greater(sc[picked[j]], sc[picked[i]])
              /\ \A k \in (1..n) \ Range(picked) :
                     \A i \in 1..Len(picked) : ~Greater(sc[k], sc[picked[i]])

C25_NoEmptyRequest ==
    last.op = "CreateEmbeddings"
        => /\ \A k \in 1..Len(last.out.reqs) : Len(last.out.reqs[k]) >= 1
           /\ last.in.texts = <<>>
                  => /\ last.out.status = "ok"
                     /\ last.out.reqs = <<>>
                     /\ last.out.embeddings = <<>>

\* C25's case: after a request that went out, the next query would have
\* been empty and the assertion stopped the call before a request
C25_Witness ==
    /\ last.op = "CreateEmbeddings"
    /\ last.out.status = "assert"
    /\ Len(last.out.reqs) >= 1
    /\ last.in.prov.failAt = 0

\* txt without the separators: read from the left, every two line feeds in
\* a row are dropped
RECURSIVE WithoutSeparators(_)
WithoutSeparators(txt) ==
    IF Len(txt) >= 2 /\ txt[1] = NL /\ txt[2] = NL
    THEN WithoutSeparators(SubSeq(txt, 3, Len(txt)))
    ELSE IF txt = <<>> THEN <<>>
         ELSE <<txt[1]>> \o WithoutSeparators(Tail(txt))

\* C26: when chunks returns, its pieces put together in order are the text
\* without its separators, no piece is empty, and an empty text gives no
\* piece.
C26_PiecesRebuildText ==
    (last.op = "chunks" /\ last.out.status = "ok")
        => /\ Concat(last.out.c) = WithoutSeparators(last.in.txt)
           /\ \A k \in 1..Len(last.out.c) : last.out.c[k] # <<>>
           /\ last.in.txt = <<>> => last.out.c = <<>>

\* C26's case: a text with a separator and a paragraph that was cut into
\* more than one piece
C26_Witness ==
    /\ last.op = "chunks"
    /\ last.out.status = "ok"
    /\ Len(WithoutSeparators(last.in.txt)) < Len(last.in.txt)
    /\ Len(last.out.c) > Len(NonEmptyParagraphs(last.in.txt))
    /\ Len(NonEmptyParagraphs(last.in.txt)) >= 2

\* the labeled blocks of the first m of the ranked chunks, one after another
RECURSIVE LabeledBlocks(_, _)
LabeledBlocks(ranked, m) ==
    IF m = 0 THEN <<>>
    ELSE LabeledBlocks(ranked, m - 1)
         \o <<ranked[m].doc, ":", NL, NL>> \o ranked[m].text \o <<NL, NL>>

\* C27: the context Answer assembles is the labeled blocks of a prefix of
\* the ranked chunks, in ranked order, each with the whole text of its
\* chunk.
C27_WholeChunksOnly ==
    (last.op = "Answer" /\ last.out.status = "ok")
        => \E m \in 0..Len(last.out.ranked) :
               last.out.context = LabeledBlocks(last.out.ranked, m)

\* C27's case: the context stopped at the budget after a block, with a
\* ranked chunk left out, and is larger than the budget
C27_Witness ==
    /\ last.op = "Answer"
    /\ last.out.status = "ok"
    /\ last.out.context # <<>>
    /\ last.out.context # LabeledBlocks(last.out.ranked, Len(last.out.ranked))
    /\ Len(last.out.context) > last.out.maxSize

\* C28: chunks returns for every text and every positive maxLen, 1
\* included.
C28_ChunksTerminates ==
    (last.op = "chunks" /\ last.in.maxLen >= 1) => last.out.status = "ok"

\* C29: the chunk strings UpdateDocument gets from chunkStrings are not
\* empty and shorter than maxEmbeddingChunkLen, no assertion of
\* CreateEmbeddings fails on the ones it sends, and with a provider that
\* does not fail the call succeeds.
C29_ChunkStringsFitBatcher ==
    (last.op = "UpdateDocument" /\ last.in.file.exists)
        => LET strs == chunkStrings(last.in.file.content) IN
           /\ \A k \in 1..Len(strs) :
                  Len(strs[k]) >= 1 /\ Len(strs[k]) < maxEmbeddingChunkLen
           /\ Range(last.out.sent) \subseteq Range(strs)
           /\ last.out.status # "assert"
           /\ last.in.prov.failAt = 0 => last.out.status = "ok"

\* C29's case: the file is one paragraph of at least twice
\* maxEmbeddingChunkLen characters, and UpdateDocument embedded its pieces
C29_Witness ==
    /\ last.op = "UpdateDocument"
    /\ last.out.status = "ok"
    /\ Len(last.in.file.content) >= 2 * maxEmbeddingChunkLen
    /\ Len(last.out.sent) >= 2
    /\ Len(last.out.reqs) >= 2

\* C30: when AddDocument of an existing file that was not tracked fails at
\* a provider request, the document is in g.Documents, appended to the
\* list as it was, and g.Chunks is as it was.
C30_FailedAddKeepsDocument ==
    (/\ last.op = "AddDocument"
     /\ last.in.file.exists
     /\ last.in.doc \notin Range(last.preDocuments)
     /\ last.out.status = "error")
        => /\ Documents = Append(last.preDocuments, last.in.doc)
           /\ Chunks = last.preChunks

\* C30's case: the second request of the AddDocument failed after the
\* first succeeded, in a knowledge base that holds a chunk
C30_Witness ==
    /\ last.op = "AddDocument"
    /\ last.out.status = "error"
    /\ last.in.doc \notin Range(last.preDocuments)
    /\ Len(last.out.reqs) = 2
    /\ last.preChunks # <<>>
    /\ Documents # <<>>

====
